---- MODULE Spec2Model ----
(***************************************************************************)
(* Reel composition pipeline of quran-reels-generator:                     *)
(*   src/src/services/videoService.js   (generateReel and its helpers)     *)
(*   src/src/controllers/videoController.js (generateVideo)                *)
(*                                                                         *)
(* Time is counted in ticks of 1/6 second, so that 0.5 s is 3 ticks and    *)
(* dur / 3 is exact for every duration that is a multiple of 3 ticks.      *)
(***************************************************************************)
EXTENDS Integers, Sequences, FiniteSets, TLC

\* ------------------------------------------------------------------ bounds
\* Longest verse list of a job in the assembly specification.
MaxVerses == 3
\* Measured durations range over 3, 6, .., 3 * MaxDur ticks (0.5 s steps).
MaxDur == 4

\* Surahs 1..NumSurahs of the text provider, each with verses 1..NumVerses.
NumSurahs == 2
NumVerses == 2

\* ------------------------------------------------------- program constants
\* Math.min(0.5, dur / 3): the 0.5 s cap, in ticks.
HalfSecond == 3
\* `-t ${totalDuration + 1}`: the 1 s pad, in ticks.
OneSecond == 6
\* ambienceSources.length
NumAmbienceSources == 3
\* LoremFlickr, then Picsum
NumImageSources == 2

\* Text layout: a text is at most MaxTextLen characters, a glyph at most
\* MaxGlyphWidth units wide
MaxTextLen == 6
MaxGlyphWidth == 2
\* line 161: maxWidth = width * 0.8, in glyph units
MaxLineWidth == 4

DurSet == {3 * k : k \in 1..MaxDur}

Min(a, b) == IF a <= b THEN a ELSE b

\* durations.reduce((a, b) => a + b, 0)
RECURSIVE SumFrom(_, _, _)
SumFrom(durations, k, acc) ==
    IF k > Len(durations) THEN acc
    ELSE SumFrom(durations, k + 1, acc + durations[k])

TotalDuration(durations) == SumFrom(durations, 1, 0)

\* ------------------------------------------------------------------- paths
\* A path is [dir, kind, a, b, ext].  For per-run files a is the job's
\* timestamp; for cache files a is the surah and b the verse number.
MkPath(dir, kind, a, b, ext) ==
    [dir |-> dir, kind |-> kind, a |-> a, b |-> b, ext |-> ext]

\* path.join(TEMP_DIR, 'NotoNaskhArabic-Regular.ttf')
FontPath == MkPath("temp", "font", 0, 0, "ttf")
\* path.join(AUDIO_CACHE_DIR, `${reciterId}_${surah:3}${verse:3}.mp3`)
CachePath(surahNumber, numberInSurah) ==
    MkPath("cache", "audio", surahNumber, numberInSurah, "mp3")
\* path.join(TEMP_DIR, `audio_${timestamp}_${ayah.numberInSurah}.mp3`)
AudioPath(timestamp, numberInSurah) ==
    MkPath("temp", "audio", timestamp, numberInSurah, "mp3")
OverlayPath(timestamp, i) == MkPath("temp", "overlay", timestamp, i, "png")
RecitationAudioPath(timestamp) == MkPath("temp", "recitation", timestamp, 0, "mp3")
AmbiencePath(timestamp) == MkPath("temp", "ambience", timestamp, 0, "mp3")
FinalAudioPath(timestamp) == MkPath("temp", "final_audio", timestamp, 0, "mp3")
NatureImgPath(timestamp) == MkPath("temp", "nature_img", timestamp, 0, "jpg")
BgVidPath(timestamp) == MkPath("temp", "bg_processed", timestamp, 0, "mp4")
FinalOutputPath(timestamp) == MkPath("output", "reel", timestamp, 0, "mp4")
\* path.resolve(uploads, `bg_upload_${timestamp}.${ext}`)
BgUploadPath(timestamp) == MkPath("temp", "bg_upload", timestamp, 0, "png")
\* the first .mp4/.jpg/.png file of public/assets/backgrounds
DefaultBgPath(ext) == MkPath("public", "background", 0, 0, ext)
\* '/System/Library/Fonts/Supplemental/Arial.ttf' and '.../KufiStandardGK.ttc'
ArialPath == MkPath("system", "font", 0, 0, "Arial.ttf")
KufiPath == MkPath("system", "font", 0, 0, "KufiStandardGK.ttc")
\* null (no backgroundPath) and '' (finalBackgroundPath before processing)
NoPath == MkPath("", "", 0, 0, "")

\* ------------------------------------------------- timeline (overlay loop)
\* Mutant of OverlayConfig: the end is not offset by currentTime.
OverlayConfigNoOffset(overlayPath, currentTime, duration) ==
    [path |-> overlayPath,
     start |-> currentTime,
     end |-> duration,
     duration |-> duration]

\* One iteration of the overlay loop: the entry pushed on overlayConfigs.
OverlayConfig(overlayPath, currentTime, duration) ==
    [path |-> overlayPath,
     start |-> currentTime,
     end |-> currentTime + duration,
     duration |-> duration]

\* ------------------------------------------------------------ filter graph
\* The filter string is kept as the sequence of its chains; a pad label is
\* [k, n]: input pad n is [k |-> "in"], "[base]", "[ovl<n>]", "[v<n>]", "[vout]".
Pad(k, n) == [k |-> k, n |-> n]

NoFade == [st |-> 0, d |-> 0]
NoWindow == [lo |-> 0, hi |-> 0]

\* '[0:v]scale=1080:1920[base];'
BaseChain ==
    [ins |-> <<Pad("in", 0)>>, op |-> "scale", fadeIn |-> NoFade,
     fadeOut |-> NoFade, enable |-> NoWindow, out |-> Pad("base", 0)]

\* Mutant of FadeInDur: the 0.5 s cap is missing.
FadeInDurNoCap(dur) == dur \div 3

FadeInDur(dur) == Min(HalfSecond, dur \div 3)

FadeOutDur(dur) == FadeInDur(dur)

InputIndex(index) == index + 2

\* '[<inputIndex>:v]scale=..,fade=t=in:st=<start>:d=<f>:alpha=1,
\*   fade=t=out:st=<end - f>:d=<f>:alpha=1[ovl<index>];'
FadeChain(config, index) ==
    [ins |-> <<Pad("in", InputIndex(index))>>, op |-> "scale,fade,fade",
     fadeIn |-> [st |-> config.start, d |-> FadeInDur(config.duration)],
     fadeOut |-> [st |-> config.end - FadeOutDur(config.duration),
                  d |-> FadeOutDur(config.duration)],
     enable |-> NoWindow, out |-> Pad("ovl", index)]

\* The label closing overlay step index of n.
StepOutput(index, n) == IF index = n - 1 THEN Pad("vout", 0) ELSE Pad("v", index)

\* "[<lastOutput>][ovl<index>]overlay=0:0:enable='between(t,<start>,<end>)'[..]"
OverlayChain(config, index, n, lastOutput) ==
    [ins |-> <<lastOutput, Pad("ovl", index)>>, op |-> "overlay",
     fadeIn |-> NoFade, fadeOut |-> NoFade,
     enable |-> [lo |-> config.start, hi |-> config.end],
     out |-> StepOutput(index, n)]

\* Mutant of NextLastOutput: lastOutput is never advanced.
NextLastOutputStuck(index) == Pad("base", 0)

\* lastOutput = outputName at the end of each forEach iteration
NextLastOutput(index) == Pad("v", index)

\* overlayConfigs.forEach((config, index) => ...), index counted from 0
RECURSIVE FilterLoop(_, _, _, _)
FilterLoop(overlayConfigs, index, filter, lastOutput) ==
    IF index >= Len(overlayConfigs) THEN filter
    ELSE FilterLoop(overlayConfigs, index + 1,
                    filter \o <<FadeChain(overlayConfigs[index + 1], index),
                                OverlayChain(overlayConfigs[index + 1], index,
                                             Len(overlayConfigs), lastOutput)>>,
                    NextLastOutput(index))

BuildFilter(overlayConfigs) ==
    FilterLoop(overlayConfigs, 0, <<BaseChain>>, Pad("base", 0))

\* ffmpeg's between(t, lo, hi): 1 when lo <= t <= hi
Between(t, lo, hi) == lo <= t /\ t <= hi

\* ------------------------------------------------------------------- state
VARIABLES
    job,            \* per request: the locals of generateVideo and generateReel
    fs,             \* the files on disk: path -> content
    pendingUnlink,  \* paths with an fs.unlink(dest, () => {}) not yet executed
    hist,           \* history per cache key <<surah, verse>>: lookups made,
                    \* requests sent, downloads completed
    now,            \* the last value read from Date.now()
    mode,           \* "sequential": a request arrives after the previous one
                    \* was answered; "concurrent": requests overlap
    ov,             \* one call of createTextOverlay: its locals
    dl,             \* one call of downloadFile: its locals and the remote side
    lay             \* the text layout of createTextOverlay: its locals

vars == <<job, fs, pendingUnlink, hist, now, mode, ov, dl, lay>>

Jobs == {1, 2}
Keys == (1..NumSurahs) \X (1..NumVerses)

\* A file's content: what it was obtained for (surah s, verse v; 0, 0 when it
\* is no verse audio), how much of it is written, and the job whose write
\* stream is open on it (0 when none).
Content(s, v, size, w) == [s |-> s, v |-> v, size |-> size, w |-> w]
FullFile == Content(0, 0, "full", 0)

Exists(files, p) == p \in DOMAIN files
WriteFile(files, p, c) == (p :> c) @@ files
RemoveFile(files, p) == [q \in DOMAIN files \ {p} |-> files[q]]
\* fs.copyFileSync(src, dest), src existing
CopyFile(files, src, dest) == WriteFile(files, dest, [files[src] EXCEPT !.w = 0])

NoErr == [kind |-> "", verse |-> 0]
NoResponse == [status |-> 0, success |-> FALSE, videoUrl |-> NoPath]

IdleJob ==
    [pc |-> "idle",
     body |-> [surahNumber |-> 0, fromAyah |-> 0, toAyah |-> 0, background |-> "none"],
     ayahs |-> <<>>, backgroundPath |-> NoPath, timestamp |-> 0,
     k |-> 0, audioFiles |-> <<>>, durations |-> <<>>, totalDuration |-> 0,
     merged |-> <<>>, source |-> 0, hasAmbience |-> FALSE,
     bgPath |-> NoPath, isAnimatedVideo |-> FALSE, finalBackgroundPath |-> NoPath,
     bgDuration |-> 0, audioDuration |-> 0, outDuration |-> 0,
     overlayFiles |-> <<>>, overlayConfigs |-> <<>>, currentTime |-> 0,
     inputs |-> <<>>, filter |-> <<>>, maps |-> <<>>,
     dlFailed |-> {}, imgFailures |-> 0,
     log |-> <<>>, err |-> NoErr, result |-> NoPath, response |-> NoResponse]

\* createTextOverlay has not been called.  configured and arial record what
\* became of the two font attempts; load is what the pending font.load will
\* do; timer is the armed 5000 ms timeout.
IdleOverlay ==
    [pc |-> "idle", fontName |-> "", fontPath |-> NoPath, usedFontName |-> "",
     fontLoaded |-> FALSE, font |-> "", configured |-> "untried",
     arial |-> "untried", load |-> "", timer |-> FALSE]

\* downloadFile has not been called.  remote is what the remote side will do,
\* disk what the write stream will do; timer is the armed request timeout of
\* axios; source is the state of the response stream.
IdleDownload ==
    [pc |-> "idle", dest |-> NoPath, remote |-> "", disk |-> "", timer |-> FALSE,
     source |-> ""]

\* The text layout has not been started.
IdleLayout ==
    [pc |-> "idle", text |-> <<>>, glyph |-> <<>>, paragraphs |-> <<>>, i |-> 0,
     wrapped |-> <<>>, allRenderLines |-> <<>>]

Init ==
    /\ job = [j \in Jobs |-> IdleJob]
    /\ fs \in {<<>>} \cup {DefaultBgPath(ext) :> FullFile : ext \in {"mp4", "jpg"}}
    /\ pendingUnlink = {}
    /\ hist = [key \in Keys |-> [lookups |-> 0, calls |-> 0, fetched |-> 0]]
    /\ now = 1
    /\ mode = "sequential"
    /\ ov = IdleOverlay
    /\ dl = IdleDownload
    /\ lay = IdleLayout

\* The machine an event handler runs on: the job's locals r with the disk,
\* the scheduled unlinks and the history.
Machine(j) == [r |-> job[j], fs |-> fs, pu |-> pendingUnlink, hist |-> hist]

Commit(j, m) ==
    /\ job' = [job EXCEPT ![j] = m.r]
    /\ fs' = m.fs
    /\ pendingUnlink' = m.pu
    /\ hist' = m.hist

\* ------------------------------------------------ controller: generateVideo
\* catch (error) { res.status(500).json({ error: ... }) }
Reject(m, kind, verse) ==
    [m EXCEPT !.r.pc = "done",
              !.r.err = [kind |-> kind, verse |-> verse],
              !.r.response = [status |-> 500, success |-> FALSE, videoUrl |-> NoPath]]

\* resolve(finalOutputPath); res.json({ success: true, videoUrl })
Resolve(m) ==
    [m EXCEPT !.r.pc = "done",
              !.r.result = FinalOutputPath(m.r.timestamp),
              !.r.response = [status |-> 200, success |-> TRUE,
                              videoUrl |-> FinalOutputPath(m.r.timestamp)]]

Stage(m, name) == [m EXCEPT !.r.log = Append(@, name)]

\* ---------------------------------------------------------- downloadFile
\* fs.createWriteStream(dest) and the request sent: dest is created or
\* truncated, and job j's stream is open on it.
StartDownload(m, j, dest, s, v) ==
    [m EXCEPT !.fs = WriteFile(@, dest, Content(s, v, "empty", j))]

\* writer 'finish': everything is written to the file the stream is open on
\* (nothing at dest when that file was unlinked meanwhile).
FinishDownload(m, j, dest) ==
    IF Exists(m.fs, dest) /\ m.fs[dest].w = j
    THEN [m EXCEPT !.fs = WriteFile(@, dest, [m.fs[dest] EXCEPT !.size = "full", !.w = 0])]
    ELSE m

\* the stream is closed on failure
AbortDownload(m, j, dest) ==
    IF Exists(m.fs, dest) /\ m.fs[dest].w = j
    THEN [m EXCEPT !.fs = WriteFile(@, dest, [m.fs[dest] EXCEPT !.w = 0])]
    ELSE m

\* fs.unlink(dest, () => {}): scheduled on the thread pool
ScheduleUnlink(m, dest) == [m EXCEPT !.pu = @ \cup {dest}]

\* the scheduled unlink of dest runs
RunUnlink(m, dest) ==
    [m EXCEPT !.fs = RemoveFile(@, dest), !.pu = @ \ {dest}]

\* ------------------------------------------ generateReel: final assembly
\* lines 466-509: the inputs, the filter, the output maps; ffmpeg is started
StartEncode(m) ==
    [Stage(m, "encode") EXCEPT
        !.r.pc = "encode",
        !.r.inputs = <<m.r.finalBackgroundPath, FinalAudioPath(m.r.timestamp)>>
                     \o m.r.overlayFiles,
        !.r.filter = BuildFilter(m.r.overlayConfigs),
        !.r.maps = <<Pad("vout", 0), Pad("in", 1)>>]

\* Mutant of StartOverlay: the loop stops one verse early.
StartOverlayShort(m) ==
    IF Len(m.r.overlayFiles) + 1 < Len(m.r.ayahs)
    THEN [m EXCEPT !.r.pc = "overlay"]
    ELSE StartEncode(m)

\* for (let i = 0; i < ayahs.length; i++) { await createTextOverlay(...) }
StartOverlay(m) ==
    IF Len(m.r.overlayFiles) < Len(m.r.ayahs)
    THEN [m EXCEPT !.r.pc = "overlay"]
    ELSE StartEncode(m)

\* lines 451-463, after createTextOverlay has written overlay i
PushOverlay(m) ==
    LET i == Len(m.r.overlayFiles)
        overlayPath == OverlayPath(m.r.timestamp, i)
        duration == m.r.durations[i + 1]
    IN [m EXCEPT
          !.fs = WriteFile(@, overlayPath,
                           Content(m.r.body.surahNumber, m.r.ayahs[i + 1], "full", 0)),
          !.r.overlayFiles = Append(@, overlayPath),
          !.r.overlayConfigs =
              Append(@, OverlayConfig(overlayPath, m.r.currentTime, duration)),
          !.r.currentTime = @ + duration]

\* ------------------------------------------ generateReel: 2. background
\* line 406: if (backgroundPath && fs.existsSync(backgroundPath)) { ffmpeg ... }
ProcessBackground(m) ==
    IF m.r.bgPath # NoPath /\ Exists(m.fs, m.r.bgPath)
    THEN [Stage(m, "bg_process") EXCEPT !.r.pc = "bg_process"]
    ELSE StartOverlay(Stage(m, "overlays"))

\* ['.mp4', '.mov', '.avi'].includes(ext)
IsVideoExt(ext) == ext \in {"mp4", "mov", "avi"}

\* Mutant of StartBackground: the remote source is asked before the custom
\* background is looked at.
StartBackgroundRemoteFirst(m, j) ==
    LET m1 == [Stage(m, "background") EXCEPT !.r.bgPath = m.r.backgroundPath]
    IN [StartDownload(m1, j, NatureImgPath(m1.r.timestamp), 0, 0)
           EXCEPT !.r.pc = "dl_bg", !.r.source = 1]

\* lines 368-382
StartBackground(m, j) ==
    LET m1 == [Stage(m, "background") EXCEPT !.r.bgPath = m.r.backgroundPath]
    IN IF m1.r.bgPath # NoPath /\ Exists(m1.fs, m1.r.bgPath)
       THEN ProcessBackground(
                [m1 EXCEPT !.r.isAnimatedVideo = IsVideoExt(m1.r.bgPath.ext)])
       ELSE [StartDownload(m1, j, NatureImgPath(m1.r.timestamp), 0, 0)
                EXCEPT !.r.pc = "dl_bg", !.r.source = 1]

\* -------------------------------------------- generateReel: 1b. ambience
\* lines 342-343: fetchAmbienceAudio starts with its first source
StartAmbience(m, j) ==
    [StartDownload(Stage(m, "ambience"), j, AmbiencePath(m.r.timestamp), 0, 0)
        EXCEPT !.r.pc = "dl_amb", !.r.source = 1]

\* -------------------------------------------------- generateReel: merge
\* lines 327-339
StartMerge(m) ==
    [Stage(m, "merge") EXCEPT
        !.r.pc = "merge",
        !.r.totalDuration = TotalDuration(m.r.durations),
        !.r.merged = m.r.audioFiles]

\* ------------------------------------------------ generateReel: 1. audio
\* lines 317-324
UseCache(m) ==
    LET numberInSurah == m.r.ayahs[m.r.k]
        cachePath == CachePath(m.r.body.surahNumber, numberInSurah)
        audioPath == AudioPath(m.r.timestamp, numberInSurah)
    IN IF Exists(m.fs, cachePath)
       THEN [m EXCEPT !.fs = CopyFile(@, cachePath, audioPath), !.r.pc = "probe"]
       ELSE Reject(m, "AudioUnavailable", numberInSurah)

\* Mutant of BeginVerse: the cache is not consulted before downloading.
BeginVerseNoCache(m, j) ==
    LET surahNumber == m.r.body.surahNumber
        numberInSurah == m.r.ayahs[m.r.k]
        key == <<surahNumber, numberInSurah>>
    IN [StartDownload(m, j, CachePath(surahNumber, numberInSurah),
                      surahNumber, numberInSurah) EXCEPT
           !.r.pc = "dl_audio",
           !.hist[key].lookups = @ + 1,
           !.hist[key].calls = @ + 1]

\* lines 299-306: one iteration of "for (const ayah of ayahs)" up to its await
BeginVerse(m, j) ==
    LET surahNumber == m.r.body.surahNumber
        numberInSurah == m.r.ayahs[m.r.k]
        cachePath == CachePath(surahNumber, numberInSurah)
        key == <<surahNumber, numberInSurah>>
        m1 == [m EXCEPT !.hist[key].lookups = @ + 1]
    IN IF ~Exists(m1.fs, cachePath)
       THEN [StartDownload(m1, j, cachePath, surahNumber, numberInSurah) EXCEPT
                !.r.pc = "dl_audio",
                !.hist[key].calls = @ + 1]
       ELSE UseCache(m1)

AudioLoop(m, j) ==
    IF m.r.k <= Len(m.r.ayahs) THEN BeginVerse(m, j) ELSE StartMerge(m)

\* line 310: the files of TEMP_DIR whose name includes `_${numberInSurah}.mp3`
FallbackFiles(files, numberInSurah) ==
    {p \in DOMAIN files :
        p.dir = "temp" /\ p.kind = "audio" /\ p.b = numberInSurah}

\* The duration of the recitation of verse v of surah s, in ticks.
AudioDur(s, v) == 3 * (1 + v + NumVerses * (s - 1))

\* getMediaDuration: what ffprobe can answer for the file at filePath
\* (dur = 0 with ok = FALSE is the error callback).
ProbeOutcomes(files, filePath) ==
    LET failed == [ok |-> FALSE, dur |-> 0]
    IN IF ~Exists(files, filePath) THEN {failed}
       ELSE LET c == files[filePath]
            IN CASE c.size = "full" -> {[ok |-> TRUE, dur |-> AudioDur(c.s, c.v)]}
                 [] c.size = "partial" -> {failed, [ok |-> TRUE, dur |-> 3]}
                 [] OTHER -> {failed}

\* Mutant of PushDuration: later verses reuse the first verse's duration.
PushDurationFirst(m, dur) ==
    LET audioPath == AudioPath(m.r.timestamp, m.r.ayahs[m.r.k])
    IN [m EXCEPT !.r.audioFiles = Append(@, audioPath),
                 !.r.durations = Append(@, IF @ = <<>> THEN dur ELSE @[1]),
                 !.r.k = @ + 1]

\* lines 319-321, after the probe answered dur
PushDuration(m, dur) ==
    LET audioPath == AudioPath(m.r.timestamp, m.r.ayahs[m.r.k])
    IN [m EXCEPT !.r.audioFiles = Append(@, audioPath),
                 !.r.durations = Append(@, dur),
                 !.r.k = @ + 1]

\* ---------------------------------------------------- ensureArabicFont
\* lines 42-48, then the audio loop starts
EnsureArabicFont(m, j) ==
    IF Exists(m.fs, FontPath)
    THEN AudioLoop(Stage([m EXCEPT !.r.k = 1], "audio"), j)
    ELSE [StartDownload(m, j, FontPath, 0, 0) EXCEPT !.r.pc = "dl_font"]

\* ----------------------------------------------------------------- actions
\* A scheduled unlink takes microseconds, the events of a job (responses,
\* encoder runs) milliseconds at least: it runs before the next event is
\* handled.  In sequential mode jobs run one after the other.
Turn(j) ==
    /\ pendingUnlink = {}
    /\ \/ mode = "concurrent"
       \/ \A i \in Jobs \ {j} : job[i].pc \in {"idle", "retired"}

\* quranService.getAyahs: the verses with fromAyah <= numberInSurah <= toAyah
GetAyahs(fromAyah, toAyah) ==
    LET lo == IF fromAyah < 1 THEN 1 ELSE fromAyah
        hi == Min(toAyah, NumVerses)
    IN [i \in 1..(IF hi >= lo THEN hi - lo + 1 ELSE 0) |-> lo + i - 1]

\* generateVideo, lines 37-45: the background files of public/assets/backgrounds
DefaultBgFiles(files) ==
    {p \in DOMAIN files :
        p.dir = "public" /\ p.kind = "background" /\ p.ext \in {"mp4", "jpg", "png"}}

\* generateVideo, lines 8-15: the request arrives and is validated.  Surahs are
\* interchangeable: the j-th request names one of the first j.
Request(j) ==
    /\ Turn(j)
    /\ job[j].pc = "idle"
    /\ \A i \in Jobs : i < j => job[i].pc # "idle"
    /\ \E surahNumber \in 1..Min(NumSurahs, j), fromAyah, toAyah \in 0..NumVerses,
          background \in {"none", "upload"} :
         LET body == [surahNumber |-> surahNumber, fromAyah |-> fromAyah,
                      toAyah |-> toAyah, background |-> background]
         IN job' = [job EXCEPT ![j] =
                IF fromAyah = 0 \/ toAyah = 0
                THEN [@ EXCEPT !.pc = "done", !.body = body,
                               !.err = [kind |-> "MissingParameters", verse |-> 0],
                               !.response = [status |-> 400, success |-> FALSE,
                                             videoUrl |-> NoPath]]
                ELSE [@ EXCEPT !.pc = "fetch_ayahs", !.body = body]]
    /\ UNCHANGED <<fs, pendingUnlink, hist, now, mode, ov, dl, lay>>

\* line 287, Date.now(): a request that follows an answered one reads a later
\* millisecond (Retire moves the clock); overlapping requests may read the
\* same millisecond or a later one.
ClockReadings == IF mode = "concurrent" THEN {now, now + 1} ELSE {now}

\* generateVideo, lines 15-59: the verses arrived; the background is chosen
\* and generateReel runs up to its first await
AyahsFetched(j) ==
    /\ Turn(j)
    /\ job[j].pc = "fetch_ayahs"
    /\ \/ \E timestamp \in ClockReadings :
            LET body == job[j].body
                upload == body.background = "upload"
                backgroundPath ==
                    IF upload THEN BgUploadPath(timestamp)
                    ELSE IF DefaultBgFiles(fs) # {}
                         THEN CHOOSE bgFile \in DefaultBgFiles(fs) : TRUE
                    ELSE NoPath
                m == Machine(j)
                m1 == [m EXCEPT
                         !.fs = IF upload THEN WriteFile(@, backgroundPath, FullFile)
                                ELSE @,
                         !.r.ayahs = GetAyahs(body.fromAyah, body.toAyah),
                         !.r.backgroundPath = backgroundPath,
                         !.r.timestamp = timestamp]
            IN Commit(j, EnsureArabicFont(m1, j)) /\ now' = timestamp
       \/ Commit(j, Reject(Machine(j), "AyahsFetchFailed", 0)) /\ now' = now
    /\ UNCHANGED <<mode, ov, dl, lay>>

\* the bytes of a download in flight start to arrive
DownloadDest(r) ==
    CASE r.pc = "dl_font" -> FontPath
      [] r.pc = "dl_audio" -> CachePath(r.body.surahNumber, r.ayahs[r.k])
      [] r.pc = "dl_amb" -> AmbiencePath(r.timestamp)
      [] r.pc = "dl_bg" -> NatureImgPath(r.timestamp)
      [] OTHER -> NoPath

DownloadProgress(j) ==
    LET dest == DownloadDest(job[j])
    IN /\ Turn(j)
       /\ job[j].pc \in {"dl_font", "dl_audio", "dl_amb", "dl_bg"}
       /\ Exists(fs, dest)
       /\ fs[dest].w = j
       /\ fs[dest].size = "empty"
       /\ fs' = WriteFile(fs, dest, [fs[dest] EXCEPT !.size = "partial"])
       /\ UNCHANGED <<job, pendingUnlink, hist, now, mode, ov, dl, lay>>

\* downloadFile rejects (lines 80-88): the unlink is scheduled and either has
\* run when the caller's catch block continues (early) or is still pending
FailDownload(m, j, dest, early) ==
    LET m1 == ScheduleUnlink(AbortDownload(m, j, dest), dest)
    IN IF early THEN RunUnlink(m1, dest) ELSE m1

\* a scheduled fs.unlink runs on the thread pool
ExecUnlink ==
    /\ \E dest \in pendingUnlink :
         /\ fs' = RemoveFile(fs, dest)
         /\ pendingUnlink' = pendingUnlink \ {dest}
    /\ UNCHANGED <<job, hist, now, mode, ov, dl, lay>>

\* ensureArabicFont, lines 47-54: the font download settles
FontDownloadEnd(j) ==
    /\ Turn(j)
    /\ job[j].pc = "dl_font"
    /\ LET m == Machine(j)
           start(m1) == AudioLoop(Stage([m1 EXCEPT !.r.k = 1], "audio"), j)
       IN \/ Commit(j, start(FinishDownload(m, j, FontPath)))
          \/ \E early \in BOOLEAN :
                Commit(j, start(FailDownload(m, j, FontPath, early)))
    /\ UNCHANGED <<now, mode, ov, dl, lay>>

\* line 306 resolves: the verse's audio is in the cache
AudioDownloaded(j) ==
    /\ Turn(j)
    /\ job[j].pc = "dl_audio"
    /\ LET key == <<job[j].body.surahNumber, job[j].ayahs[job[j].k]>>
           cachePath == CachePath(key[1], key[2])
           m == [Machine(j) EXCEPT !.hist[key].fetched = @ + 1]
       IN Commit(j, UseCache(FinishDownload(m, j, cachePath)))
    /\ UNCHANGED <<now, mode, ov, dl, lay>>

\* lines 307-324 after downloadFile rejected.  The unlink scheduled by
\* downloadFile runs before the directory is read (at = 0), after the fallback
\* copy (at = 1), after existsSync (at = 2), or later (at = 3).
AudioDownloadFailed(j) ==
    /\ Turn(j)
    /\ job[j].pc = "dl_audio"
    /\ \E at \in 0..3 :
         LET numberInSurah == job[j].ayahs[job[j].k]
             cachePath == CachePath(job[j].body.surahNumber, numberInSurah)
             m1 == FailDownload(Machine(j), j, cachePath, at = 0)
             found == FallbackFiles(m1.fs, numberInSurah)
         IN \E uploaded \in (IF found = {} THEN {NoPath} ELSE found) :
              LET m2 == IF uploaded = NoPath
                        THEN [m1 EXCEPT !.r.dlFailed = @ \cup {numberInSurah}]
                        ELSE [m1 EXCEPT !.fs = CopyFile(@, uploaded, cachePath)]
                  m3 == IF at = 1 THEN RunUnlink(m2, cachePath) ELSE m2
              IN Commit(j,
                    IF at = 2 /\ Exists(m3.fs, cachePath)
                    THEN Reject(RunUnlink(m3, cachePath), "CopyError", numberInSurah)
                    ELSE UseCache(m3))
    /\ UNCHANGED <<now, mode, ov, dl, lay>>

\* lines 319-321: ffprobe answers for the per-run copy
ProbeEnd(j) ==
    /\ Turn(j)
    /\ job[j].pc = "probe"
    /\ LET m == Machine(j)
           audioPath == AudioPath(m.r.timestamp, m.r.ayahs[m.r.k])
       IN \E out \in ProbeOutcomes(fs, audioPath) :
            Commit(j, IF out.ok THEN AudioLoop(PushDuration(m, out.dur), j)
                      ELSE Reject(m, "ProbeError", m.r.ayahs[m.r.k]))
    /\ UNCHANGED <<now, mode, ov, dl, lay>>

\* lines 334-343: mergeToFile ends; fetchAmbienceAudio starts
MergeEnd(j) ==
    /\ Turn(j)
    /\ job[j].pc = "merge"
    /\ LET m == Machine(j)
           recitationAudioPath == RecitationAudioPath(m.r.timestamp)
       IN \/ /\ m.r.audioFiles # <<>>
             /\ \A i \in 1..Len(m.r.audioFiles) : Exists(fs, m.r.audioFiles[i])
             /\ Commit(j, StartAmbience(
                    [m EXCEPT !.fs = WriteFile(@, recitationAudioPath, FullFile)], j))
          \/ Commit(j, Reject(m, "MergeError", 0))
    /\ UNCHANGED <<now, mode, ov, dl, lay>>

\* mergeToFile concatenates the per-run files: the recitation lasts their sum
RecitationDuration(r) == TotalDuration(r.durations)

\* Mutant of MixDuration: amix runs to its longest input, the looped ambience,
\* and only -t ends it.
MixDurationLongest(recitation, totalDuration) == totalDuration + OneSecond

\* lines 356-358: amix=inputs=2:duration=first ends with the recitation, and
\* -t totalDuration + 1 cuts what is longer
MixDuration(recitation, totalDuration) == Min(recitation, totalDuration + OneSecond)

\* line 507, -shortest: the output ends with its shortest stream
Shortest(visual, audio) == Min(visual, audio)

\* lines 346-362: the ambience mix is started
StartMix(m) == [Stage(m, "mix") EXCEPT !.r.pc = "mix", !.r.hasAmbience = TRUE]

\* lines 363-365: no ambience, the recitation is the final audio
CopyRecitation(m, j) ==
    LET recitationAudioPath == RecitationAudioPath(m.r.timestamp)
    IN IF Exists(m.fs, recitationAudioPath)
       THEN StartBackground(
                [m EXCEPT !.fs = CopyFile(@, recitationAudioPath,
                                          FinalAudioPath(m.r.timestamp)),
                          !.r.audioDuration = RecitationDuration(m.r),
                          !.r.hasAmbience = FALSE], j)
       ELSE Reject(m, "CopyError", 0)

\* fetchAmbienceAudio, lines 267-279: the download of one source settles
AmbienceDownloadEnd(j) ==
    /\ Turn(j)
    /\ job[j].pc = "dl_amb"
    /\ LET m == Machine(j)
           ambiencePath == AmbiencePath(m.r.timestamp)
       IN \/ Commit(j, StartMix(FinishDownload(m, j, ambiencePath)))
          \/ \E early \in BOOLEAN :
               LET m1 == FailDownload(m, j, ambiencePath, early)
               IN Commit(j,
                    IF m.r.source < NumAmbienceSources
                    THEN [StartDownload(m1, j, ambiencePath, 0, 0)
                             EXCEPT !.r.source = @ + 1]
                    ELSE CopyRecitation(m1, j))
    /\ UNCHANGED <<now, mode, ov, dl, lay>>

\* lines 348-362: the ambience mix ends
MixEnd(j) ==
    /\ Turn(j)
    /\ job[j].pc = "mix"
    /\ LET m == Machine(j)
       IN \/ /\ Exists(fs, RecitationAudioPath(m.r.timestamp))
             /\ Exists(fs, AmbiencePath(m.r.timestamp))
             /\ fs[AmbiencePath(m.r.timestamp)].size = "full"
             /\ Commit(j, StartBackground(
                    [m EXCEPT !.fs = WriteFile(@, FinalAudioPath(m.r.timestamp),
                                               FullFile),
                              !.r.audioDuration =
                                  MixDuration(RecitationDuration(m.r),
                                              m.r.totalDuration)], j))
          \/ Commit(j, Reject(m, "MixError", 0))
    /\ UNCHANGED <<now, mode, ov, dl, lay>>

\* Mutant of NoBackground: a solid black clip is generated instead.
NoBackgroundBlack(m) ==
    LET bgVidPath == BgVidPath(m.r.timestamp)
    IN StartOverlay(Stage(
          [m EXCEPT !.fs = WriteFile(@, bgVidPath, FullFile),
                    !.r.finalBackgroundPath = bgVidPath,
                    !.r.bgDuration = m.r.totalDuration + OneSecond],
          "overlays"))

\* Mutant of NoBackground: the job goes on without a background clip.
NoBackgroundSilent(m) == StartOverlay(Stage(m, "overlays"))

\* lines 398-402: no custom background and every image source failed
NoBackground(m) == Reject(m, "BackgroundUnavailable", 0)

\* lines 382-403: the download of one image source settles
BgDownloadEnd(j) ==
    /\ Turn(j)
    /\ job[j].pc = "dl_bg"
    /\ LET m == Machine(j)
           natureImgPath == NatureImgPath(m.r.timestamp)
       IN \/ Commit(j, ProcessBackground(
                    [FinishDownload(m, j, natureImgPath) EXCEPT
                        !.r.bgPath = natureImgPath,
                        !.r.isAnimatedVideo = FALSE]))
          \/ \E early \in BOOLEAN :
               LET m1 == [FailDownload(m, j, natureImgPath, early)
                             EXCEPT !.r.imgFailures = @ + 1]
               IN Commit(j,
                    IF m.r.source < NumImageSources
                    THEN [StartDownload(m1, j, natureImgPath, 0, 0)
                             EXCEPT !.r.source = @ + 1]
                    ELSE NoBackground(m1))
    /\ UNCHANGED <<now, mode, ov, dl, lay>>

\* lines 408-438: the background clip has been written, or ffmpeg failed
BgProcessEnd(j) ==
    /\ Turn(j)
    /\ job[j].pc = "bg_process"
    /\ LET m == Machine(j)
           bgVidPath == BgVidPath(m.r.timestamp)
       IN \/ /\ Exists(fs, m.r.bgPath)
             /\ fs[m.r.bgPath].size = "full"
             /\ Commit(j, StartOverlay(Stage(
                    [m EXCEPT !.fs = WriteFile(@, bgVidPath, FullFile),
                              !.r.finalBackgroundPath = bgVidPath,
                              !.r.bgDuration = m.r.totalDuration + OneSecond],
                    "overlays")))
          \/ Commit(j, Reject(m, "BackgroundProcessingFailed", 0))
    /\ UNCHANGED <<now, mode, ov, dl, lay>>

\* line 453: createTextOverlay returns or throws
OverlayEnd(j) ==
    /\ Turn(j)
    /\ job[j].pc = "overlay"
    /\ \/ Commit(j, StartOverlay(PushOverlay(Machine(j))))
       \/ Commit(j, Reject(Machine(j), "OverlayError", 0))
    /\ UNCHANGED <<now, mode, ov, dl, lay>>

\* ffmpeg can run the graph: every input file is there and [vout] is produced
CanEncode(files, r) ==
    /\ \A i \in 1..Len(r.inputs) : Exists(files, r.inputs[i])
    /\ \E c \in 1..Len(r.filter) : r.filter[c].out = r.maps[1]

\* lines 509-517: the final ffmpeg run ends
EncodeEnd(j) ==
    /\ Turn(j)
    /\ job[j].pc = "encode"
    /\ LET m == Machine(j)
           finalOutputPath == FinalOutputPath(m.r.timestamp)
       IN \/ /\ CanEncode(fs, m.r)
             /\ Commit(j, Resolve(
                    [m EXCEPT !.fs = WriteFile(@, finalOutputPath, FullFile),
                              !.r.outDuration =
                                  Shortest(m.r.bgDuration, m.r.audioDuration)]))
          \/ \E partial \in BOOLEAN :
               Commit(j, Reject(
                    [m EXCEPT !.fs = IF partial
                                     THEN WriteFile(@, finalOutputPath,
                                                    Content(0, 0, "partial", 0))
                                     ELSE @],
                    "EncodeFailure", 0))
    /\ UNCHANGED <<now, mode, ov, dl, lay>>

\* The files a later request can read: the cache, the per-run audio copies
\* (line 310 searches TEMP_DIR for them), the font and the default background.
\* Every other per-run file carries the timestamp of its job in its name.
Shared(p) ==
    \/ p.dir \in {"cache", "public"}
    \/ p.dir = "temp" /\ p.kind \in {"audio", "font"}

\* generateVideo has answered and returned: its locals are gone, and the clock
\* has moved on by the time another request arrives.  The files only this
\* job could name are left out of the disk from here on.
Retire(j) ==
    /\ Turn(j)
    /\ job[j].pc = "done"
    /\ job' = [job EXCEPT ![j] = [IdleJob EXCEPT !.pc = "retired"]]
    /\ fs' = [p \in {q \in DOMAIN fs : Shared(q)} |-> fs[p]]
    /\ now' = now + 1
    /\ UNCHANGED <<pendingUnlink, hist, mode, ov, dl, lay>>

Next ==
    \/ \E j \in Jobs :
         \/ Request(j)
         \/ AyahsFetched(j)
         \/ DownloadProgress(j)
         \/ FontDownloadEnd(j)
         \/ AudioDownloaded(j)
         \/ AudioDownloadFailed(j)
         \/ ProbeEnd(j)
         \/ MergeEnd(j)
         \/ AmbienceDownloadEnd(j)
         \/ MixEnd(j)
         \/ BgDownloadEnd(j)
         \/ BgProcessEnd(j)
         \/ OverlayEnd(j)
         \/ EncodeEnd(j)
         \/ Retire(j)
    \/ ExecUnlink

Spec == Init /\ [][Next]_vars

\* ---------------------------------------------------- final assembly alone
\* generateReel at line 441 for measured durations d: the overlay loop, the
\* filter graph and the final encode.
RECURSIVE AudioFilesFrom(_, _)
AudioFilesFrom(timestamp, n) ==
    IF n = 0 THEN <<>>
    ELSE Append(AudioFilesFrom(timestamp, n - 1), AudioPath(timestamp, n))

AtAssembly(d) ==
    [IdleJob EXCEPT
        !.pc = "overlay",
        !.body = [surahNumber |-> 1, fromAyah |-> 1, toAyah |-> Len(d),
                  background |-> "none"],
        !.ayahs = [i \in 1..Len(d) |-> i],
        !.timestamp = 1,
        !.k = Len(d) + 1,
        !.audioFiles = AudioFilesFrom(1, Len(d)),
        !.merged = AudioFilesFrom(1, Len(d)),
        !.durations = d,
        !.totalDuration = TotalDuration(d),
        !.bgPath = NatureImgPath(1),
        !.finalBackgroundPath = BgVidPath(1),
        !.bgDuration = TotalDuration(d) + OneSecond,
        !.audioDuration = TotalDuration(d),
        !.log = <<"audio", "merge", "ambience", "background", "bg_process",
                  "overlays">>]

DurationSeqs == UNION {[1..n -> DurSet] : n \in 1..MaxVerses}

InitAssembly ==
    /\ \E d \in DurationSeqs :
         job = [j \in Jobs |-> IF j = 1 THEN AtAssembly(d)
                               ELSE [IdleJob EXCEPT !.pc = "retired"]]
    /\ fs = [p \in {FinalAudioPath(1), BgVidPath(1)} |-> FullFile]
    /\ pendingUnlink = {}
    /\ hist = [key \in Keys |-> [lookups |-> 0, calls |-> 0, fetched |-> 0]]
    /\ now = 1
    /\ mode = "sequential"
    /\ ov = IdleOverlay
    /\ dl = IdleDownload
    /\ lay = IdleLayout

NextAssembly ==
    \/ OverlayEnd(1)
    \/ EncodeEnd(1)

SpecAssembly == InitAssembly /\ [][NextAssembly]_vars

\* ------------------------------------------- overlapping audio acquisition
\* Two requests in flight at once, followed up to the end of their audio
\* loops (lines 285-325).
InitConcurrent ==
    /\ job = [j \in Jobs |-> IdleJob]
    /\ fs \in {<<>>, FontPath :> FullFile}
    /\ pendingUnlink = {}
    /\ hist = [key \in Keys |-> [lookups |-> 0, calls |-> 0, fetched |-> 0]]
    /\ now = 1
    /\ mode = "concurrent"
    /\ ov = IdleOverlay
    /\ dl = IdleDownload
    /\ lay = IdleLayout

NextConcurrent ==
    \/ \E j \in Jobs :
         \/ Request(j)
         \/ AyahsFetched(j)
         \/ DownloadProgress(j)
         \/ FontDownloadEnd(j)
         \/ AudioDownloaded(j)
         \/ AudioDownloadFailed(j)
         \/ ProbeEnd(j)
    \/ ExecUnlink

SpecConcurrent == InitConcurrent /\ [][NextConcurrent]_vars

\* ------------------------------------------------------- createTextOverlay
\* lines 105-112: fontConfigs[fontName] || fontConfigs['Standard']
FontConfigs(fontName) ==
    CASE fontName = "Standard" -> ArialPath
      [] fontName = "Modern" -> FontPath
      [] fontName = "Kufi" -> KufiPath
      [] OTHER -> ArialPath

\* What registerFont and font.load can do: call back, throw, or never call back.
LoadOutcomes == {"loads", "throws", "never"}

\* lines 156-234: the font is set; the text is laid out and the PNG encoded
Render(o, font) == [o EXCEPT !.pc = "render", !.font = font, !.timer = FALSE, !.load = ""]

\* lines 152-154
SansSerif(o) == Render(o, "sans-serif")

\* lines 137-154, up to the await of line 143 (no timeout is armed there)
Fallback(o, files) ==
    IF Exists(files, ArialPath)
    THEN {SansSerif([o EXCEPT !.arial = "threw"])}
         \cup {[o EXCEPT !.pc = "load_arial", !.load = outcome, !.timer = FALSE] :
                  outcome \in LoadOutcomes \ {"throws"}}
    ELSE {SansSerif([o EXCEPT !.arial = "missing"])}

\* lines 94-128: createTextOverlay is called and runs up to its first await
CallOverlay ==
    /\ ov.pc = "idle"
    /\ \E fontName \in {"Standard", "Modern", "Kufi", "Naskh"} :
         LET fontPath == FontConfigs(fontName)
             o == [ov EXCEPT !.fontName = fontName, !.fontPath = fontPath,
                             !.usedFontName = fontName]
         IN IF Exists(fs, fontPath)
            THEN \/ ov' \in Fallback([o EXCEPT !.configured = "threw"], fs)
                 \/ \E outcome \in LoadOutcomes \ {"throws"} :
                      ov' = [o EXCEPT !.pc = "load_font", !.load = outcome,
                                      !.timer = TRUE]
            ELSE ov' \in Fallback([o EXCEPT !.configured = "missing"], fs)
    /\ UNCHANGED <<job, fs, pendingUnlink, hist, now, mode, dl, lay>>

\* lines 124-130: the callback of font.load runs
FontLoadCallback ==
    /\ ov.pc = "load_font"
    /\ ov.load = "loads"
    /\ ov' = Render([ov EXCEPT !.fontLoaded = TRUE, !.configured = "loaded"],
                    ov.usedFontName)
    /\ UNCHANGED <<job, fs, pendingUnlink, hist, now, mode, dl, lay>>

\* line 123: the 5000 ms timeout rejects; lines 132-137
FontLoadTimeout ==
    /\ ov.pc = "load_font"
    /\ ov.timer
    /\ ov' \in Fallback([ov EXCEPT !.configured = "timeout", !.timer = FALSE], fs)
    /\ UNCHANGED <<job, fs, pendingUnlink, hist, now, mode, dl, lay>>

\* lines 143-145: the callback of Arial's font.load runs
ArialLoadCallback ==
    /\ ov.pc = "load_arial"
    /\ ov.load = "loads"
    /\ ov' = Render([ov EXCEPT !.fontLoaded = TRUE, !.arial = "loaded"], "Arial")
    /\ UNCHANGED <<job, fs, pendingUnlink, hist, now, mode, dl, lay>>

\* line 234: the PNG is written and createTextOverlay returns
OverlayWritten ==
    /\ ov.pc = "render"
    /\ ov' = [ov EXCEPT !.pc = "returned"]
    /\ fs' = WriteFile(fs, OverlayPath(now, 0), FullFile)
    /\ UNCHANGED <<job, pendingUnlink, hist, now, mode, dl, lay>>

InitOverlay ==
    /\ job = [j \in Jobs |-> [IdleJob EXCEPT !.pc = "retired"]]
    /\ fs \in {[p \in fonts |-> FullFile] : fonts \in SUBSET {ArialPath, KufiPath, FontPath}}
    /\ pendingUnlink = {}
    /\ hist = [key \in Keys |-> [lookups |-> 0, calls |-> 0, fetched |-> 0]]
    /\ now = 1
    /\ mode = "sequential"
    /\ ov = IdleOverlay
    /\ dl = IdleDownload
    /\ lay = IdleLayout

NextOverlay ==
    \/ CallOverlay
    \/ FontLoadCallback
    \/ FontLoadTimeout
    \/ ArialLoadCallback
    \/ OverlayWritten

\* The event loop runs every callback that is ready and every timer that is
\* armed.
SpecOverlay == InitOverlay /\ [][NextOverlay]_vars /\ WF_vars(NextOverlay)

\* ------------------------------------------------- downloadFile, call by call
\* What the remote side can do with a request: never answer, refuse the
\* connection, answer with a status other than 200, answer 200 and send the
\* whole body, answer 200 and break the body off with an error, answer 200
\* and stop sending without closing.
RemoteBehaviours == {"silent", "refuses", "status", "complete", "errors", "stalls"}

\* the destinations downloadFile is called with (lines 47, 306, 266, 382, 388)
DownloadDests ==
    {FontPath, AmbiencePath(now), NatureImgPath(now)}
        \cup {CachePath(key[1], key[2]) : key \in Keys}

\* lines 60-71: the write stream is created and the request is sent
CallDownload ==
    /\ dl.pc = "idle"
    /\ pendingUnlink = {}
    /\ \E dest \in DownloadDests, remote \in RemoteBehaviours, disk \in {"ok", "fails"} :
         /\ dl' = [dl EXCEPT !.pc = "request", !.dest = dest, !.remote = remote,
                             !.disk = disk, !.timer = TRUE]
         /\ fs' = StartDownload(Machine(1), 1, dest, 0, 0).fs
    /\ UNCHANGED <<job, pendingUnlink, hist, now, mode, ov, lay>>

\* lines 85-88: the unlink is scheduled and the error is thrown to the caller
ThrowDownload(early) ==
    LET m == FailDownload(Machine(1), 1, dl.dest, early)
    IN /\ dl' = [dl EXCEPT !.pc = "rejected", !.timer = FALSE]
       /\ fs' = m.fs
       /\ pendingUnlink' = m.pu
       /\ UNCHANGED <<job, hist, now, mode, ov, lay>>

\* line 63 rejects (connection refused, a status outside 2xx) or line 74
\* throws (a 2xx status other than 200)
RequestFailed ==
    /\ dl.pc = "request"
    /\ dl.remote \in {"refuses", "status"}
    /\ \E early \in BOOLEAN : ThrowDownload(early)

\* line 67: 120000 ms passed without the headers of a response
RequestTimeout ==
    /\ dl.pc = "request"
    /\ dl.timer
    /\ \E early \in BOOLEAN : ThrowDownload(early)

\* lines 63-84: the headers of a 200 response arrived; axios resolves with the
\* response stream, which is piped into the writer, and the promise that only
\* the writer's 'finish' and 'error' settle is returned.  The request timeout
\* can no longer reject anything.
ResponseHeaders ==
    /\ dl.pc = "request"
    /\ dl.remote \in {"complete", "errors", "stalls"}
    /\ dl' = [dl EXCEPT !.pc = "piping", !.timer = FALSE, !.source = "open"]
    /\ UNCHANGED <<job, fs, pendingUnlink, hist, now, mode, ov, lay>>

\* a chunk of the body arrives and is handed to the writer
BodyChunk ==
    /\ dl.pc = "piping"
    /\ dl.source = "open"
    /\ Exists(fs, dl.dest)
    /\ fs[dl.dest].size = "empty"
    /\ fs' = WriteFile(fs, dl.dest, [fs[dl.dest] EXCEPT !.size = "partial"])
    /\ UNCHANGED <<job, pendingUnlink, hist, now, mode, ov, dl, lay>>

\* the response stream ends: pipe ends the writer, 'finish' resolves (line 79)
BodyEnd ==
    /\ dl.pc = "piping"
    /\ dl.source = "open"
    /\ dl.remote = "complete"
    /\ dl.disk = "ok"
    /\ dl' = [dl EXCEPT !.pc = "resolved", !.source = "ended"]
    /\ fs' = FinishDownload(Machine(1), 1, dl.dest).fs
    /\ UNCHANGED <<job, pendingUnlink, hist, now, mode, ov, lay>>

\* lines 80-83: a write fails, the writer emits 'error'
WriterError ==
    /\ dl.pc = "piping"
    /\ dl.disk = "fails"
    /\ Exists(fs, dl.dest)
    /\ fs[dl.dest].size = "partial"
    /\ \E early \in BOOLEAN : ThrowDownload(early)

\* The response stream emits 'error' after the headers.  pipe (line 77) does
\* not forward it to the writer and nothing listens on response.data: the
\* writer is neither ended nor destroyed, so neither handler of lines 79-83
\* runs; where no listener at all is attached the event is thrown as an
\* uncaught exception and the process ends.
BodyError ==
    /\ dl.pc = "piping"
    /\ dl.source = "open"
    /\ dl.remote = "errors"
    /\ \E pc \in {"piping", "crashed"} :
         dl' = [dl EXCEPT !.pc = pc, !.source = "errored"]
    /\ UNCHANGED <<job, fs, pendingUnlink, hist, now, mode, ov, lay>>

InitDownload ==
    /\ job = [j \in Jobs |-> [IdleJob EXCEPT !.pc = "retired"]]
    /\ fs \in {<<>>} \cup {dest :> FullFile : dest \in {FontPath, CachePath(1, 1)}}
    /\ pendingUnlink = {}
    /\ hist = [key \in Keys |-> [lookups |-> 0, calls |-> 0, fetched |-> 0]]
    /\ now = 1
    /\ mode = "sequential"
    /\ ov = IdleOverlay
    /\ dl = IdleDownload
    /\ lay = IdleLayout

NextDownload ==
    \/ CallDownload
    \/ RequestFailed
    \/ RequestTimeout
    \/ ResponseHeaders
    \/ BodyChunk
    \/ BodyEnd
    \/ WriterError
    \/ BodyError
    \/ ExecUnlink

\* The event loop runs every callback that is ready and every timer that is
\* armed; the remote side does what it is going to do.
SpecDownload == InitDownload /\ [][NextDownload]_vars /\ WF_vars(NextDownload)

\* -------------------------------------- createTextOverlay: the text layout
\* A text is a sequence of characters: two letters, the space, the newline.
Letters == {"a", "b"}
Whitespace == {" ", "\n"}
Chars == Letters \cup Whitespace
Texts == UNION {[1..n -> Chars] : n \in 0..MaxTextLen}

\* What the font makes of a glyph: the width of a letter that stands alone, of
\* a letter joined to a neighbour, of whitespace.
GlyphTables ==
    [isolated : 1..MaxGlyphWidth, joined : 1..MaxGlyphWidth, space : 1..MaxGlyphWidth]

\* String.prototype.split with a separator string: the pieces between the
\* occurrences of sep found from left to right, empty pieces included.
RECURSIVE SplitFrom(_, _, _, _, _)
SplitFrom(text, sep, k, piece, pieces) ==
    IF k > Len(text) THEN Append(pieces, piece)
    ELSE IF k + Len(sep) - 1 <= Len(text) /\ SubSeq(text, k, k + Len(sep) - 1) = sep
         THEN SplitFrom(text, sep, k + Len(sep), <<>>, Append(pieces, piece))
    ELSE SplitFrom(text, sep, k + 1, Append(piece, text[k]), pieces)

Split(text, sep) == SplitFrom(text, sep, 1, <<>>, <<>>)

\* String.prototype.trim: the whitespace at both ends is removed
RECURSIVE Trim(_)
Trim(text) ==
    IF text = <<>> THEN text
    ELSE IF Head(text) \in Whitespace THEN Trim(Tail(text))
    ELSE IF text[Len(text)] \in Whitespace THEN Trim(SubSeq(text, 1, Len(text) - 1))
    ELSE text

\* Array.prototype.join
RECURSIVE Join(_, _)
Join(lines, sep) ==
    IF lines = <<>> THEN <<>>
    ELSE IF Len(lines) = 1 THEN lines[1]
    ELSE lines[1] \o sep \o Join(Tail(lines), sep)

\* lines 165-168: convertArabic replaces each letter by its contextual form (a
\* letter with a letter beside it is joined); getReorderedString puts the
\* right-to-left run in visual order.
ProcessArabicText(rawText) ==
    LET n == Len(rawText)
        reshaped == [k \in 1..n |->
            [c |-> rawText[k],
             joined |-> /\ rawText[k] \in Letters
                        /\ \/ k > 1 /\ rawText[k - 1] \in Letters
                           \/ k < n /\ rawText[k + 1] \in Letters]]
    IN [k \in 1..n |-> reshaped[n + 1 - k]]

\* ctx.measureText(...).width: the widths of the glyphs added up
RECURSIVE MeasureText(_, _)
MeasureText(visual, glyph) ==
    IF visual = <<>> THEN 0
    ELSE LET g == Head(visual)
             w == IF g.c \in Whitespace THEN glyph.space
                  ELSE IF g.joined THEN glyph.joined ELSE glyph.isolated
         IN w + MeasureText(Tail(visual), glyph)

\* Mutant of WrapLoop: the line built so far is measured, not the candidate.
RECURSIVE WrapLoopMeasuresCurrent(_, _, _, _, _, _)
WrapLoopMeasuresCurrent(words, i, currentLine, lines, maxWidth, glyph) ==
    IF i > Len(words) THEN Append(lines, currentLine)
    ELSE LET word == words[i]
             testLine == currentLine \o <<" ">> \o word
             metrics == MeasureText(ProcessArabicText(currentLine), glyph)
         IN IF metrics > maxWidth
            THEN WrapLoopMeasuresCurrent(words, i + 1, word, Append(lines, currentLine),
                                         maxWidth, glyph)
            ELSE WrapLoopMeasuresCurrent(words, i + 1, testLine, lines, maxWidth, glyph)

\* lines 175-187: the loop over the words after the first, and the last push
RECURSIVE WrapLoop(_, _, _, _, _, _)
WrapLoop(words, i, currentLine, lines, maxWidth, glyph) ==
    IF i > Len(words) THEN Append(lines, currentLine)
    ELSE LET word == words[i]
             testLine == currentLine \o <<" ">> \o word
             metrics == MeasureText(ProcessArabicText(testLine), glyph)
         IN IF metrics > maxWidth
            THEN WrapLoop(words, i + 1, word, Append(lines, currentLine), maxWidth, glyph)
            ELSE WrapLoop(words, i + 1, testLine, lines, maxWidth, glyph)

\* Mutant of WrapText: the loop starts at the first word again.
WrapTextFromFirst(text, maxWidth, glyph) ==
    LET words == Split(text, <<" ">>)
    IN WrapLoop(words, 1, words[1], <<>>, maxWidth, glyph)

\* lines 170-188
WrapText(text, maxWidth, glyph) ==
    LET words == Split(text, <<" ">>)
    IN WrapLoop(words, 2, words[1], <<>>, maxWidth, glyph)

\* lines 193-197: paragraphs.forEach from the i-th paragraph on
RECURSIVE ForEachParagraph(_, _, _, _, _)
ForEachParagraph(paragraphs, i, allRenderLines, maxWidth, glyph) ==
    IF i > Len(paragraphs) THEN allRenderLines
    ELSE LET wrappedLines == WrapText(Trim(paragraphs[i]), maxWidth, glyph)
         IN ForEachParagraph(paragraphs, i + 1,
                             Append(allRenderLines \o wrappedLines, <<>>),
                             maxWidth, glyph)

\* Mutant of RemoveLastSpacer: the last spacer stays.
RemoveLastSpacerNever(allRenderLines) == allRenderLines

\* lines 199-202
RemoveLastSpacer(allRenderLines) ==
    IF Len(allRenderLines) > 0 /\ allRenderLines[Len(allRenderLines)] = <<>>
    THEN SubSeq(allRenderLines, 1, Len(allRenderLines) - 1)
    ELSE allRenderLines

\* line 94: createTextOverlay is called with a text; the font is being loaded
CallLayout ==
    /\ lay.pc = "idle"
    /\ \E text \in Texts, glyph \in GlyphTables :
         lay' = [lay EXCEPT !.pc = "font", !.text = text, !.glyph = glyph]
    /\ UNCHANGED <<job, fs, pendingUnlink, hist, now, mode, ov, dl>>

\* lines 156-202: the font is set; the text is split into paragraphs, each is
\* wrapped, and the last spacer is removed.  wrapped keeps, for each
\* paragraph, the argument and the result of its wrapText call.
LayOut ==
    /\ lay.pc = "font"
    /\ LET maxWidth == MaxLineWidth
           paragraphs == Split(lay.text, <<"\n", "\n">>)
       IN lay' = [lay EXCEPT
             !.pc = "laid",
             !.paragraphs = paragraphs,
             !.i = Len(paragraphs) + 1,
             !.wrapped = [i \in 1..Len(paragraphs) |->
                            [text |-> Trim(paragraphs[i]),
                             wrappedLines |-> WrapText(Trim(paragraphs[i]), maxWidth,
                                                       lay.glyph)]],
             !.allRenderLines =
                 RemoveLastSpacer(ForEachParagraph(paragraphs, 1, <<>>, maxWidth,
                                                   lay.glyph))]
    /\ UNCHANGED <<job, fs, pendingUnlink, hist, now, mode, ov, dl>>

\* lines 204-234: the lines that are not blank are drawn and the PNG is written
DrawLines ==
    /\ lay.pc = "laid"
    /\ lay' = [lay EXCEPT !.pc = "drawn"]
    /\ fs' = WriteFile(fs, OverlayPath(now, 0), FullFile)
    /\ UNCHANGED <<job, pendingUnlink, hist, now, mode, ov, dl>>

InitLayout ==
    /\ job = [j \in Jobs |-> [IdleJob EXCEPT !.pc = "retired"]]
    /\ fs = <<>>
    /\ pendingUnlink = {}
    /\ hist = [key \in Keys |-> [lookups |-> 0, calls |-> 0, fetched |-> 0]]
    /\ now = 1
    /\ mode = "sequential"
    /\ ov = IdleOverlay
    /\ dl = IdleDownload
    /\ lay = IdleLayout

NextLayout ==
    \/ CallLayout
    \/ LayOut
    \/ DrawLines

SpecLayout == InitLayout /\ [][NextLayout]_vars

\* ================================================================== claims
\* The jobs whose final ffmpeg run has been started: the timeline and the
\* filter graph are complete.
Assembled == {j \in Jobs : job[j].pc = "encode"}

\* The chains of job j's filter graph with output pad out.
ChainsTo(j, out) == {c \in 1..Len(job[j].filter) : job[j].filter[c].out = out}

\* C1: the overlay timeline starts at 0, entry i ends exactly where entry i+1
\* starts, each entry lasts its measured duration, and once every entry is
\* built the last one ends at totalDuration.
C1_Timeline ==
    \A j \in Jobs :
        LET entries == job[j].overlayConfigs
            d == job[j].durations
        IN /\ Len(entries) <= Len(d)
           /\ Len(entries) > 0 => entries[1].start = 0
           /\ \A i \in 1..Len(entries) : entries[i].end - entries[i].start = d[i]
           /\ \A i \in 1..(Len(entries) - 1) : entries[i].end = entries[i + 1].start
           /\ j \in Assembled /\ Len(d) > 0 =>
                /\ Len(entries) = Len(d)
                /\ entries[Len(entries)].end = job[j].totalDuration

\* C1 witness: a three-verse timeline with unequal durations is complete
\* (1.0 s, 1.5 s, 2.0 s give (0, 6), (6, 15), (15, 27) ticks).
C1_Witness ==
    /\ 1 \in Assembled
    /\ job[1].durations = <<6, 9, 12>>
    /\ job[1].overlayConfigs[3].start = 15
    /\ job[1].overlayConfigs[3].end = 27

\* C2: in the final filter graph the fade-in and the fade-out of overlay i
\* each last min(0.5 s, duration_i / 3); the fade-in starts at entries[i].start,
\* the fade-out ends at entries[i].end; they do not overlap and stay inside
\* the verse's window.
C2_Fades ==
    \A j \in Assembled :
        \A i \in 1..Len(job[j].overlayConfigs) :
            LET entry == job[j].overlayConfigs[i]
                chains == ChainsTo(j, Pad("ovl", i - 1))
            IN /\ chains # {}
               /\ \A c \in chains :
                    LET fadeIn == job[j].filter[c].fadeIn
                        fadeOut == job[j].filter[c].fadeOut
                    IN /\ fadeIn.d = fadeOut.d
                       /\ fadeIn.d <= HalfSecond
                       /\ 3 * fadeIn.d <= entry.duration
                       /\ fadeIn.d = HalfSecond \/ 3 * fadeIn.d = entry.duration
                       /\ fadeIn.st = entry.start
                       /\ fadeOut.st + fadeOut.d = entry.end
                       /\ fadeIn.st + fadeIn.d <= fadeOut.st
                       /\ entry.start <= fadeIn.st
                       /\ fadeOut.st + fadeOut.d <= entry.end

\* C2 witness: a 1.0 s verse fades for a third of a second (2 ticks) and a
\* 2.0 s verse for the capped half second (3 ticks) in one graph.
C2_Witness ==
    /\ 1 \in Assembled
    /\ job[1].durations = <<6, 12>>
    /\ job[1].filter[2].fadeIn.d = 2
    /\ job[1].filter[4].fadeIn.d = 3
    /\ job[1].filter[4].fadeOut.st = 15

\* The overlays whose overlay chain is enabled at time t.
EnabledAt(j, t) ==
    {c \in 1..Len(job[j].filter) :
        /\ job[j].filter[c].op = "overlay"
        /\ Between(t, job[j].filter[c].enable.lo, job[j].filter[c].enable.hi)}

\* C8 (as claimed): overlay i is enabled exactly for t in the half-open window
\* [entries[i].start, entries[i].end), so at every instant of [0, totalDuration)
\* exactly one overlay is enabled.
C8_HalfOpenWindows ==
    \A j \in Assembled :
        \A t \in 0..(job[j].totalDuration - 1) :
            /\ Cardinality(EnabledAt(j, t)) = 1
            /\ \A i \in 1..Len(job[j].overlayConfigs) :
                 (\E c \in EnabledAt(j, t) : job[j].filter[c].ins[2] = Pad("ovl", i - 1))
                   <=> (job[j].overlayConfigs[i].start <= t
                        /\ t < job[j].overlayConfigs[i].end)

\* C9: the filter graph is correctly wired: input 0 is scaled once into
\* [base]; overlay i reads input i+2, the i-th overlay file, and is composited
\* onto the output of step i-1; every label is defined once, before its use;
\* only the last step produces [vout], which is mapped with audio input 1.
C9_Wiring ==
    \A j \in Assembled :
        LET r == job[j]
            n == Len(r.overlayConfigs)
            defined(l) == ChainsTo(j, l)
        IN n >= 1 =>
            /\ r.filter[1] = BaseChain
            /\ \A c \in 1..Len(r.filter) :
                 Pad("in", 0) \in {r.filter[c].ins[x] : x \in DOMAIN r.filter[c].ins}
                    => c = 1
            /\ r.inputs[1] = r.finalBackgroundPath
            /\ r.inputs[2] = FinalAudioPath(r.timestamp)
            /\ Len(r.inputs) = n + 2
            /\ \A i \in 0..(n - 1) :
                 /\ \E c \in defined(Pad("ovl", i)) :
                        r.filter[c].ins = <<Pad("in", i + 2)>>
                 /\ r.inputs[i + 3] = OverlayPath(r.timestamp, i)
                 /\ r.inputs[i + 3] = r.overlayFiles[i + 1]
                 /\ Exists(fs, r.inputs[i + 3]) => fs[r.inputs[i + 3]].v = r.ayahs[i + 1]
                 /\ \E c \in 1..Len(r.filter) :
                        /\ r.filter[c].op = "overlay"
                        /\ r.filter[c].ins =
                             <<IF i = 0 THEN Pad("base", 0) ELSE Pad("v", i - 1),
                               Pad("ovl", i)>>
                        /\ r.filter[c].out = StepOutput(i, n)
            /\ \A c \in 1..Len(r.filter) :
                 /\ Cardinality(defined(r.filter[c].out)) = 1
                 /\ \A x \in DOMAIN r.filter[c].ins :
                      LET l == r.filter[c].ins[x]
                      IN IF l.k = "in" THEN l.n < Len(r.inputs)
                         ELSE /\ Cardinality(defined(l)) = 1
                              /\ \A c2 \in defined(l) : c2 < c
            /\ defined(Pad("vout", 0)) = {Len(r.filter)}
            /\ r.maps = <<Pad("vout", 0), Pad("in", 1)>>

\* C9 witness: a graph of three overlays is built and started.
C9_Witness ==
    /\ 1 \in Assembled
    /\ Len(job[1].overlayFiles) = 3
    /\ Len(job[1].filter) = 7
    /\ job[1].filter[7].ins = <<Pad("v", 1), Pad("ovl", 2)>>

\* The stages a job has started, from its log.
Started(j) == {job[j].log[i] : i \in DOMAIN job[j].log}

\* C3: at final assembly the overlay images, the timeline entries, the
\* measured durations and the requested verses are equally many, and entry i
\* and overlay i belong to verse i of the request.
C3_Counts ==
    \A j \in Assembled :
        LET r == job[j]
        IN /\ Len(r.overlayFiles) = Len(r.ayahs)
           /\ Len(r.overlayConfigs) = Len(r.ayahs)
           /\ Len(r.durations) = Len(r.ayahs)
           /\ Len(r.audioFiles) = Len(r.ayahs)
           /\ \A i \in 1..Len(r.ayahs) :
                /\ r.overlayFiles[i] = OverlayPath(r.timestamp, i - 1)
                /\ r.overlayConfigs[i].path = r.overlayFiles[i]
                /\ r.overlayConfigs[i].duration = r.durations[i]
                /\ r.audioFiles[i] = AudioPath(r.timestamp, r.ayahs[i])
                /\ Exists(fs, r.overlayFiles[i])
                /\ fs[r.overlayFiles[i]].s = r.body.surahNumber
                /\ fs[r.overlayFiles[i]].v = r.ayahs[i]

\* C3 witness: a two-verse job has reached final assembly.
C3_Witness ==
    /\ 1 \in Assembled
    /\ job[1].ayahs = <<1, 2>>
    /\ Len(job[1].overlayFiles) = 2

\* C4 (as claimed): when the download of a verse missing from the cache fails
\* and the working directory holds no fallback for it, the job fails with the
\* audio-unavailable error naming that verse, whatever the order of the
\* asynchronous unlink and the existence check; no later stage is started and
\* no output path is returned.
C4_AudioUnavailable ==
    \A j \in Jobs :
        job[j].dlFailed # {} =>
            /\ job[j].pc = "done"
            /\ job[j].err.kind = "AudioUnavailable"
            /\ job[j].err.verse \in job[j].dlFailed
            /\ Started(j) \cap {"merge", "background", "bg_process", "overlays",
                               "encode"} = {}
            /\ job[j].result = NoPath

C6_ExactlyOneDownload ==
    \A key \in Keys : hist[key].lookups = 2 => hist[key].calls = 1

\* C6 (amended): once the download of a key has completed it is never
\* downloaded again, and a lookup that finds a cache entry sends no request
\* and copies the entry to the job's per-run path.
C6_CacheHit ==
    /\ [](\A key \in Keys : hist[key].fetched <= 1)
    /\ [][\A key \in Keys :
            /\ Exists(fs, CachePath(key[1], key[2])) \/ hist[key].fetched >= 1
                  => hist'[key].calls = hist[key].calls
            /\ Exists(fs, CachePath(key[1], key[2]))
               /\ hist'[key].lookups = hist[key].lookups + 1
                  => \E j \in Jobs :
                        /\ job'[j].pc = "probe"
                        /\ job'[j].ayahs[job'[j].k] = key[2]
                        /\ fs'[AudioPath(job'[j].timestamp, key[2])]
                             = [fs[CachePath(key[1], key[2])] EXCEPT !.w = 0]]_vars

\* C6 witness: the second request of a key found the downloaded entry, sent
\* nothing and holds its per-run copy.
C6_Witness ==
    /\ hist[<<1, 1>>] = [lookups |-> 2, calls |-> 1, fetched |-> 1]
    /\ job[2].pc = "probe"
    /\ job[2].k = 1
    /\ Exists(fs, AudioPath(job[2].timestamp, 1))
    /\ fs[AudioPath(job[2].timestamp, 1)] = Content(1, 1, "full", 0)

AllStages ==
    <<"audio", "merge", "ambience", "mix", "background", "bg_process",
      "overlays", "encode">>

\* C7 (as claimed): success is answered only after every stage has completed
\* successfully, with the complete output file; a job one of whose stages
\* failed answers with an error.
C7_NoPartialArtifact ==
    \A j \in Jobs :
        /\ job[j].response.success =>
             /\ job[j].pc = "done"
             /\ job[j].response.status = 200
             /\ job[j].response.videoUrl = FinalOutputPath(job[j].timestamp)
             /\ Exists(fs, job[j].response.videoUrl)
             /\ fs[job[j].response.videoUrl].size = "full"
             /\ Started(j) \cup {"mix"} = {AllStages[i] : i \in DOMAIN AllStages}
             /\ job[j].dlFailed = {}
        /\ job[j].pc = "done" /\ job[j].err # NoErr =>
             /\ ~job[j].response.success
             /\ job[j].response.status \in {400, 500}
             /\ job[j].response.videoUrl = NoPath

\* C10: when acquisition has succeeded the job holds one per-run audio file
\* and one duration per requested verse, in request order; durations[i] is
\* what the probe answers for the per-run copy of verse i; the files are
\* merged in that order.
C10_Acquisition ==
    \A j \in Jobs :
        LET r == job[j]
        IN /\ Len(r.audioFiles) = Len(r.durations)
           /\ Len(r.durations) <= Len(r.ayahs)
           /\ \A i \in 1..Len(r.durations) :
                /\ r.audioFiles[i] = AudioPath(r.timestamp, r.ayahs[i])
                /\ Exists(fs, r.audioFiles[i])
                /\ fs[r.audioFiles[i]].v = r.ayahs[i]
                /\ [ok |-> TRUE, dur |-> r.durations[i]]
                      \in ProbeOutcomes(fs, r.audioFiles[i])
           /\ "merge" \in Started(j) =>
                /\ Len(r.durations) = Len(r.ayahs)
                /\ r.merged = r.audioFiles

\* C10 witness: both verses of a two-verse job are downloaded, copied and
\* probed (1.0 s and 1.5 s) and the merge is running.
C10_Witness ==
    /\ job[1].pc = "merge"
    /\ job[1].ayahs = <<1, 2>>
    /\ job[1].durations = <<AudioDur(1, 1), AudioDur(1, 2)>>
    /\ job[1].merged = <<AudioPath(job[1].timestamp, 1), AudioPath(job[1].timestamp, 2)>>

C11_WitnessRemote ==
    /\ job[1].pc = "bg_process"
    /\ job[1].bgPath = NatureImgPath(job[1].timestamp)
    /\ job[1].imgFailures = 1
    /\ ~job[1].isAnimatedVideo

\* The log of job j lists stages in the order of AllStages.
InStageOrder(j) ==
    \A a, b \in DOMAIN job[j].log :
        a < b => \E x, y \in DOMAIN AllStages :
                    /\ x < y
                    /\ AllStages[x] = job[j].log[a]
                    /\ AllStages[y] = job[j].log[b]

\* Audio acquisition is complete before anything that depends on it starts.
AcquisitionFirst(j) ==
    LET r == job[j]
    IN /\ InStageOrder(j)
       /\ Started(j) \cap {"merge", "background", "bg_process", "overlays",
                           "encode"} # {}
          \/ r.overlayConfigs # <<>> \/ r.totalDuration # 0 =>
             /\ Len(r.durations) = Len(r.ayahs)
             /\ Len(r.audioFiles) = Len(r.ayahs)
             /\ r.totalDuration = TotalDuration(r.durations)

\* The final encode runs on inputs that have been produced.
EncodeInputsReady(j) ==
    LET r == job[j]
    IN r.pc = "encode" =>
         /\ Exists(fs, FinalAudioPath(r.timestamp))
         /\ Len(r.overlayFiles) = Len(r.ayahs)
         /\ \A i \in 1..Len(r.overlayFiles) : Exists(fs, r.overlayFiles[i])
         /\ r.finalBackgroundPath = BgVidPath(r.timestamp)
         /\ Exists(fs, r.finalBackgroundPath)

\* C12 (as claimed): within a job the stages run in dependency order: audio
\* acquisition is complete before totalDuration, the merge, the background and
\* the timeline; the final encode starts only after the final audio, the
\* prepared background clip and every overlay image have been produced.
C12_DependencyOrder ==
    \A j \in Jobs : AcquisitionFirst(j) /\ EncodeInputsReady(j)

\* C13 (as claimed): once a job has finished, successfully or with an error,
\* its per-run audio copies are gone from the working directory: every
\* per-run audio copy on disk belongs to a job that is still running.
C13_PerRunCopiesDeleted ==
    \A p \in DOMAIN fs :
        p.dir = "temp" /\ p.kind = "audio" =>
            \E j \in Jobs :
                /\ job[j].timestamp = p.a
                /\ job[j].pc \notin {"idle", "done", "retired"}

\* C14 (as claimed): a job whose verse list is empty is rejected before the
\* pipeline runs: no merge, ambience or background download, overlay or
\* encode is started for it and no total is taken of an empty duration list.
C14_EmptyRejected ==
    \A j \in Jobs :
        job[j].ayahs = <<>> =>
            /\ Started(j) \cap {"merge", "ambience", "mix", "background",
                                "bg_process", "overlays", "encode"} = {}
            /\ job[j].pc \notin {"merge", "dl_amb", "mix", "dl_bg", "bg_process",
                                 "overlay", "encode"}

\* The font set for rendering is the first of configured family, Arial and
\* sans-serif that loaded.
FontOrder ==
    /\ ov.font = ov.usedFontName /\ ov.font # "" => ov.configured = "loaded"
    /\ ov.font = "Arial" =>
          ov.configured \in {"missing", "threw", "timeout"} /\ ov.arial = "loaded"
    /\ ov.font = "sans-serif" =>
          /\ ov.configured \in {"missing", "threw", "timeout"}
          /\ ov.arial \in {"missing", "threw"}
    /\ ov.pc \in {"render", "returned"} => ov.font # ""

\* C15 (as claimed): whatever the configured font and the Arial fallback do
\* (file missing, load throws, load callback never fires), a call of
\* createTextOverlay eventually reaches rendering with a font set, the first
\* of configured family, Arial and sans-serif that loaded.
C15_FontNeverStalls ==
    /\ []FontOrder
    /\ (ov.pc # "idle") ~> (ov.pc \in {"render", "returned"})

\* C16: the prepared background clip lasts totalDuration + 1 s, the output
\* lasts as long as the shorter of the visual chain and the audio track, and
\* with ambience mixed in as well as without it that is the recitation's
\* total duration, without the 1 s pad.
C16_OutputDuration ==
    \A j \in Jobs :
        LET r == job[j]
        IN /\ r.finalBackgroundPath # NoPath =>
                r.bgDuration = r.totalDuration + OneSecond
           /\ r.response.success =>
                /\ r.outDuration = Min(r.bgDuration, r.audioDuration)
                /\ r.outDuration = TotalDuration(r.durations)
                /\ r.outDuration = r.totalDuration
                /\ r.outDuration < r.bgDuration

\* C16 witness: a reel with ambience mixed in is complete; its verse lasts
\* 1.0 s, its background clip 2.0 s, the reel 1.0 s.
C16_Witness ==
    /\ job[1].response.success
    /\ job[1].hasAmbience
    /\ job[1].durations = <<6>>
    /\ job[1].bgDuration = 12
    /\ job[1].outDuration = 6

\* C16 second case: the same without ambience.
C16_WitnessCopy ==
    /\ job[1].response.success
    /\ ~job[1].hasAmbience
    /\ job[1].audioDuration = 6
    /\ job[1].outDuration = 6

\* The files of the working directory and the output directory that a job
\* is writing or reading at its current await.
InUse(r) ==
    LET ts == r.timestamp
        Range(f) == {f[i] : i \in DOMAIN f}
    IN CASE r.pc = "dl_font" -> {FontPath}
         [] r.pc = "probe" -> {AudioPath(ts, r.ayahs[r.k])}
         [] r.pc = "merge" -> Range(r.audioFiles) \cup {RecitationAudioPath(ts)}
         [] r.pc = "dl_amb" -> {AmbiencePath(ts)}
         [] r.pc = "mix" ->
              {RecitationAudioPath(ts), AmbiencePath(ts), FinalAudioPath(ts)}
         [] r.pc = "dl_bg" -> {NatureImgPath(ts)}
         [] r.pc = "bg_process" -> {r.bgPath, BgVidPath(ts)} \ {r.backgroundPath}
         [] r.pc = "overlay" -> {OverlayPath(ts, Len(r.overlayFiles)), FontPath}
         [] r.pc = "encode" -> Range(r.inputs) \cup {FinalOutputPath(ts)}
         [] OTHER -> {}

\* C17 (as claimed): two jobs in flight at once never write or read the same
\* file of the working directory or the output directory, and the per-run
\* paths of two jobs are distinct.
C17_DistinctPaths ==
    \A j1, j2 \in Jobs :
        j1 # j2 =>
            /\ InUse(job[j1]) \cap InUse(job[j2]) = {}
            /\ job[j1].timestamp # 0 /\ job[j1].pc # "done"
               /\ job[j2].timestamp # 0 /\ job[j2].pc # "done"
                  => job[j1].timestamp # job[j2].timestamp

\* The cache holds a completely written entry for key.
Complete(files, key) ==
    /\ Exists(files, CachePath(key[1], key[2]))
    /\ files[CachePath(key[1], key[2])].size = "full"

\* C18 (as claimed): once a complete cache entry exists for a key, no step of
\* any job deletes, truncates or overwrites it.
C18_CacheNeverInvalidated ==
    [][\A key \in Keys :
         Complete(fs, key) =>
            /\ Complete(fs', key)
            /\ fs'[CachePath(key[1], key[2])] = fs[CachePath(key[1], key[2])]]_vars

C21_FallbackBeforeGivingUp ==
    \A j \in Jobs :
        /\ job[j].pc = "done" /\ job[j].err.kind = "AudioUnavailable" =>
              FallbackFiles(fs, job[j].err.verse) = {}
        /\ job[j].err.kind = "CopyError" => job[j].err.verse = 0

\* C22 (as claimed): every call of downloadFile settles, by resolving or by
\* rejecting, whatever the remote side does.
C22_DownloadSettles == (dl.pc = "request") ~> (dl.pc \in {"resolved", "rejected"})

\* The wrapText calls made by a finished layout: argument and result.
WrapCalls ==
    IF lay.pc \in {"laid", "drawn"}
    THEN {lay.wrapped[i] : i \in 1..Len(lay.wrapped)}
    ELSE {}

LineWidth(line) == MeasureText(ProcessArabicText(line), lay.glyph)

\* C23: wrapText is greedy over the space-separated words.  A line was
\* committed only because the candidate made of it, a space and the next word
\* measured wider than maxWidth; every line of more than one word measures at
\* most maxWidth, so a line wider than maxWidth is a single word.
C23_GreedyWrap ==
    \A call \in WrapCalls :
        LET lines == call.wrappedLines
        IN /\ \A k \in 1..Len(lines) :
                LineWidth(lines[k]) > MaxLineWidth => Len(Split(lines[k], <<" ">>)) = 1
           /\ \A k \in 1..(Len(lines) - 1) :
                LineWidth(lines[k] \o <<" ">> \o Split(lines[k + 1], <<" ">>)[1])
                    > MaxLineWidth

\* a paragraph wrapped into a line of several words, a committed line and a
\* single word wider than maxWidth
C23_Witness ==
    \E call \in WrapCalls :
        LET lines == call.wrappedLines
        IN /\ Len(lines) >= 2
           /\ \E k \in 1..Len(lines) : Len(Split(lines[k], <<" ">>)) > 1
           /\ \E k \in 1..Len(lines) : LineWidth(lines[k]) > MaxLineWidth

\* The number of render lines before the first line of paragraph i: the lines
\* of the paragraphs before it and one separator after each of them.
RECURSIVE LinesBefore(_)
LinesBefore(i) ==
    IF i <= 1 THEN 0
    ELSE LinesBefore(i - 1) + Len(lay.wrapped[i - 1].wrappedLines) + 1

\* C24: the render lines of a text of p >= 1 paragraphs are the wrapped lines
\* of the paragraphs in order, with one empty line between two consecutive
\* paragraphs, p - 1 in all, and none after the last paragraph.
C24_Separators ==
    lay.pc \in {"laid", "drawn"} =>
        LET p == Len(lay.paragraphs)
            all == lay.allRenderLines
        IN /\ p >= 1
           /\ lay.paragraphs = Split(lay.text, <<"\n", "\n">>)
           /\ \A i \in 1..p :
                LET wrappedLines == lay.wrapped[i].wrappedLines
                IN /\ lay.wrapped[i].text = Trim(lay.paragraphs[i])
                   /\ Len(wrappedLines) >= 1
                   /\ SubSeq(all, LinesBefore(i) + 1, LinesBefore(i) + Len(wrappedLines))
                         = wrappedLines
                   /\ i > 1 => all[LinesBefore(i)] = <<>>
           /\ Len(all) = LinesBefore(p) + Len(lay.wrapped[p].wrappedLines)

\* a text of two paragraphs, the first wrapped into two lines
C24_Witness ==
    /\ lay.pc = "laid"
    /\ Len(lay.paragraphs) = 2
    /\ Len(lay.wrapped[1].wrappedLines) = 2
    /\ lay.wrapped[2].text # <<>>
    /\ Len(lay.allRenderLines) = 4

\* The words of the lines, line after line.
RECURSIVE WordsOf(_)
WordsOf(lines) ==
    IF lines = <<>> THEN <<>>
    ELSE Split(Head(lines), <<" ">>) \o WordsOf(Tail(lines))

\* C28: wrapText loses, duplicates and reorders nothing.  The returned lines
\* joined with single spaces are the paragraph it was given, and the words of
\* the lines, line after line, are the words of the paragraph, each once and
\* in the same order.
C28_WrapKeepsText ==
    \A call \in WrapCalls :
        /\ Join(call.wrappedLines, <<" ">>) = call.text
        /\ WordsOf(call.wrappedLines) = Split(call.text, <<" ">>)

\* a paragraph with two spaces in a row, wrapped into several lines
C28_Witness ==
    \E call \in WrapCalls :
        /\ Len(call.wrappedLines) >= 2
        /\ \E k \in 1..(Len(call.text) - 1) :
              call.text[k] = " " /\ call.text[k + 1] = " "
        /\ \E k \in 1..Len(call.wrappedLines) :
              Len(Split(call.wrappedLines[k], <<" ">>)) > 1

\* C25 (as claimed): a completely written file of the audio cache holds the
\* audio of the surah and verse of its key.
C25_CacheMatchesKey ==
    \A key \in Keys :
        LET cachePath == CachePath(key[1], key[2])
        IN Exists(fs, cachePath) /\ fs[cachePath].size = "full" =>
              fs[cachePath].s = key[1] /\ fs[cachePath].v = key[2]

\* C26 (as claimed): a job takes a cache entry as a hit, copying it and
\* probing the copy without a download of its own, only when the entry is
\* completely written.
C26_HitOnlyWhenComplete ==
    [][\A j \in Jobs :
         /\ job[j].pc # "dl_audio"
         /\ job'[j].pc = "probe"
         /\ job'[j] # job[j]
         => Complete(fs, <<job'[j].body.surahNumber, job'[j].ayahs[job'[j].k]>>)]_vars

\* C27 (as claimed): whenever the final encode has been started, its first
\* input, finalBackgroundPath, is the processed background clip of the job
\* and that clip exists.
C27_BackgroundPrepared ==
    \A j \in Assembled :
        /\ job[j].inputs[1] = job[j].finalBackgroundPath
        /\ job[j].inputs[1] = BgVidPath(job[j].timestamp)
        /\ Exists(fs, job[j].inputs[1])

\* The job got past the ambience stage without ambience.
WithoutAmbience(j) ==
    /\ \E i \in 1..Len(job[j].log) : job[j].log[i] = "background"
    /\ ~job[j].hasAmbience

\* C29 (as claimed): the ambience never fails the job, no job ends with an
\* error of the ambience stage; and a job whose ambience sources all failed
\* goes on with a final audio track that is an unmodified copy of the merged
\* recitation.
C29_AmbienceOptional ==
    \A j \in Jobs :
        /\ job[j].err.kind # "MixError"
        /\ ~(job[j].err.kind = "CopyError" /\ job[j].err.verse = 0)
        /\ WithoutAmbience(j) =>
              /\ Exists(fs, FinalAudioPath(job[j].timestamp))
              /\ Exists(fs, RecitationAudioPath(job[j].timestamp))
              /\ fs[FinalAudioPath(job[j].timestamp)]
                    = fs[RecitationAudioPath(job[j].timestamp)]
              /\ job[j].audioDuration = RecitationDuration(job[j])

====
